---- MODULE Spec2Model ----
(***************************************************************************)
(* Race lifecycle monitor (backend/race_monitor.py), race schedule         *)
(* (backend/schedule.py) and continuous ingestion loop (backend/ingest.py) *)
(* of the endurance racing tracker.                                        *)
(*                                                                         *)
(* These specifications share this module:                                 *)
(*   Spec      the RaceMonitor as main.py runs it: the start_monitoring    *)
(*             task, the clock, and the shutdown hook's stop_monitoring.   *)
(*   SpecStatus  Spec with status requests (get_status) at any time.       *)
(*   SpecRetry   Spec with polls whose schedule lookup raises.             *)
(*   SpecLive  the monitor's inline liveness test and schedule.py's        *)
(*             is_race_live as pure functions of (now, scheduled start).   *)
(*   SpecSchedule  get_next_race and get_upcoming_races as pure functions. *)
(*   SpecLoop  one DataIngestionManager driven the way race_monitor.py     *)
(*             drives it (constructed, started once, stopped);             *)
(*   SpecLoopAPI the same manager under arbitrary start/stop calls.        *)
(*   SpecSource  one scraper under any sequence of init/fetch/close calls. *)
(*   SpecParse   the text conversions and the row parser of ingest.py.     *)
(*                                                                         *)
(* Time is counted in minutes.  asyncio runs one task at a time and        *)
(* switches tasks only at an await that really suspends, so every action   *)
(* is the code between two suspension points.                              *)
(***************************************************************************)
EXTENDS Integers, Sequences, FiniteSets, TLC

(***************************************************************************)
(* Optional values: Python's None and a present value.                     *)
(***************************************************************************)
None == <<>>
Some(x) == <<x>>
Val(o) == o[1]

(***************************************************************************)
(* Bounds of the model.                                                    *)
(***************************************************************************)
MaxTime == 70       \* the clock stops here
StartA == 32        \* scheduled start of EventA
StartB == 68        \* scheduled start of EventB, first schedule
StartBNear == 40    \* scheduled start of EventB, second schedule
LiveMargin == 3     \* minutes probed outside the liveness window
MaxFetches == 3     \* fetch attempts of one ingestion manager
MaxStops == 2       \* stop_ingestion calls on one ingestion manager
MaxStarts == 2      \* start_ingestion calls on one ingestion manager
MaxPollFailures == 1  \* polls that raise, under SpecRetry
MaxEvents == 3      \* events of a schedule, under SpecSchedule
MaxDate == 3        \* latest scheduled start, under SpecSchedule
LimitBelow == 2     \* limits down to -LimitBelow go to get_upcoming_races
MaxStatusCalls == 1 \* calls of get_status, under SpecStatus
MaxSourceCalls == 5 \* init/fetch/close calls on one scraper, under SpecSource
MaxLapTextLen == 5  \* characters of a lap-time text, under SpecParse
MaxGapTextLen == 4  \* tokens of a gap text, under SpecParse
MaxRows == 2        \* timing rows of a page, under SpecParse

(***************************************************************************)
(* Program constants.                                                      *)
(***************************************************************************)
interval == 10              \* seconds, SCRAPE_INTERVAL default, ingest.py:274
lap_proxy == 100            \* seconds per lap down, ingest.py:145
check_interval == 300       \* seconds, race_monitor.py:25
SecondsPerMinute == 60      \* race_monitor.py:52
pre_roll == 30              \* minutes, race_monitor.py:55
max_duration == 720         \* minutes, race_monitor.py:55
error_retry_interval == 60  \* seconds, race_monitor.py:38
tolerance_hours == 12       \* hours, schedule.py:94
SecondsPerHour == 3600      \* schedule.py:100

VARIABLES
  now,                 \* the wall clock, datetime.now(timezone.utc)
  all_races,           \* schedule.py: WEC_SCHEDULE + IMSA_SCHEDULE
  is_running,          \* RaceMonitor.is_running
  ingestion_manager,   \* RaceMonitor.ingestion_manager
  current_race_name,   \* RaceMonitor.current_race_name
  races,               \* rows of the races table, in id order
  exported,            \* race ids handed to export_race_to_json, in order
  mtask,               \* position of the start_monitoring task
  wake,                \* time at which the task's asyncio.sleep ends
  stop_state,          \* "not_called" / "returned": stop_monitoring
  poll,                \* history: what the latest poll saw and decided
  stop_seen,           \* history: the active race row at stop_monitoring
  probe,               \* SpecLive: a (now, scheduled start) pair, its verdict
  lookup,              \* SpecSchedule: the schedule queries and their results
  status,              \* SpecStatus: the calls of get_status, the latest result
  source,              \* SpecSource: one scraper and the resources it made
  parse,               \* SpecParse: a page text or row, and what it parsed to
  dim,                 \* the DataIngestionManager under SpecLoop
  session,             \* WECScraper.session
  driver,              \* IMSAScraper.driver
  loops,               \* the tasks running DataIngestionManager.start_ingestion
  fetch_log,           \* history: the fetch attempts, in order
  callback_log,        \* history: the attempts handed to the callback, in order
  stop_calls,          \* the calls of DataIngestionManager.stop_ingestion
  close_calls          \* history: closes performed on the session or driver

monitor_vars == <<now, all_races, is_running, ingestion_manager,
                  current_race_name, races, exported, mtask, wake,
                  stop_state, poll, stop_seen>>
live_vars == <<probe, lookup, status, source, parse>>
loop_vars == <<dim, session, driver, loops, fetch_log, callback_log,
               stop_calls, close_calls>>
vars == <<monitor_vars, live_vars, loop_vars>>

(***************************************************************************)
(* schedule.py                                                             *)
(***************************************************************************)
ScheduledEvent(n, s, d) == [name |-> n, series |-> s, date |-> d]

Schedules ==
  { << ScheduledEvent("EventA", "WEC", StartA),
       ScheduledEvent("EventB", "IMSA", StartB) >>,
    << ScheduledEvent("EventA", "WEC", StartA),
       ScheduledEvent("EventB", "IMSA", StartBNear) >> }

\* min(upcoming, key=date): the first of the entries with the least date
MinByDate(s) ==
  LET i == CHOOSE i \in 1..Len(s) :
             /\ \A j \in 1..Len(s) : s[i].date <= s[j].date
             /\ \A j \in 1..(i-1) : s[j].date > s[i].date
  IN s[i]

\* the filter of line 77 with >= in place of >
get_next_race_at_or_after(sched, t) ==
  LET upcoming == SelectSeq(sched, LAMBDA race : race.date >= t)
  IN IF upcoming = <<>> THEN None ELSE Some(MinByDate(upcoming))

get_next_race(sched, t) ==
  LET upcoming == SelectSeq(sched, LAMBDA race : race.date > t)
  IN IF upcoming = <<>> THEN None ELSE Some(MinByDate(upcoming))

\* list.sort(key=date): ascending and stable
RECURSIVE sort_by_date(_)
sort_by_date(s) ==
  IF s = <<>> THEN <<>>
  ELSE LET e == s[Len(s)]
           r == sort_by_date(SubSeq(s, 1, Len(s) - 1))
           k == Cardinality({j \in 1..Len(r) : r[j].date <= e.date})
       IN SubSeq(r, 1, k) \o <<e>> \o SubSeq(r, k + 1, Len(r))

\* s[:limit]: a negative limit counts from the end of the list
SliceTo(s, limit) ==
  LET stop == IF limit >= 0
              THEN (IF limit < Len(s) THEN limit ELSE Len(s))
              ELSE (IF Len(s) + limit > 0 THEN Len(s) + limit ELSE 0)
  IN SubSeq(s, 1, stop)

get_upcoming_races(sched, t, limit) ==
  LET upcoming == SelectSeq(sched, LAMBDA race : race.date > t)
  IN SliceTo(sort_by_date(upcoming), limit)

\* schedule.is_race_live: time_diff is in hours, 0 <= time_diff <= tolerance
is_race_live(t, race_time) ==
  LET seconds == (t - race_time) * SecondsPerMinute
  IN 0 <= seconds /\ seconds <= tolerance_hours * SecondsPerHour

(***************************************************************************)
(* race_monitor.py: the liveness test of check_for_live_race               *)
(***************************************************************************)
is_live_open_interval(t, race_time) ==
  LET time_diff == t - race_time
  IN (0 - pre_roll) < time_diff /\ time_diff < max_duration

is_live(t, race_time) ==
  LET time_diff == t - race_time
  IN (0 - pre_roll) <= time_diff /\ time_diff <= max_duration

(***************************************************************************)
(* ingest.py: DataIngestionManager.__init__.  Python binds the call's      *)
(* keyword arguments to the parameters first; a keyword the signature      *)
(* does not have raises TypeError before the body runs.                    *)
(***************************************************************************)
DataIngestionManager_params == {"series"}

DataIngestionManager_init(kwargs, series) ==
  IF ~(kwargs \subseteq DataIngestionManager_params)
  THEN [raised |-> TRUE]
  ELSE [raised |-> FALSE,
        obj |-> [series |-> series,
                 scraper |-> IF series = "WEC" THEN Some("WECScraper")
                             ELSE IF series = "IMSA" THEN Some("IMSAScraper")
                             ELSE None,
                 is_running |-> FALSE,
                 task |-> "none"]]

\* DataIngestionManager.start_ingestion(self, callback): callback is required
start_ingestion_required == {"callback"}

(***************************************************************************)
(* race_monitor.py: the RaceMonitor object and the database rows it        *)
(* touches, as one record, so that the calls made between two suspension   *)
(* points compose.                                                         *)
(***************************************************************************)
MonitorState ==
  [ingestion_manager |-> ingestion_manager,
   current_race_name |-> current_race_name,
   races |-> races,
   exported |-> exported]

Race(id, race_info) ==
  [id |-> id, series |-> race_info.series, name |-> race_info.name,
   start_time |-> race_info.date, end_time |-> None, is_active |-> TRUE]

\* db.query(Race).filter(Race.is_active == True).first()
FirstActive(rs) ==
  IF \E i \in 1..Len(rs) : rs[i].is_active
  THEN Some(CHOOSE i \in 1..Len(rs) :
              rs[i].is_active /\ \A j \in 1..(i-1) : ~rs[j].is_active)
  ELSE None

\* an update that touches no row
DeactivateNone(rs) == rs

\* db.query(Race).update({"is_active": False})
DeactivateAll(rs) == [i \in 1..Len(rs) |-> [rs[i] EXCEPT !.is_active = FALSE]]

(***************************************************************************)
(* RaceMonitor.stop_ingestion.  A manager the monitor holds has never      *)
(* fetched (its loop is started after the assignment, see start_ingestion) *)
(* so closing its scraper releases nothing and does not suspend; a manager *)
(* without scraper raises AttributeError at scraper.close(), which line    *)
(* 147 catches before the manager is cleared.  export_ok is the outcome of *)
(* export_race_to_json; a failed export is caught at line 141.             *)
(***************************************************************************)
RaceMonitor_stop_ingestion(st, t, export_ok) ==
  IF st.ingestion_manager = None THEN st
  ELSE
    LET mgr == Val(st.ingestion_manager)
        stopped == [mgr EXCEPT !.is_running = FALSE]
        active == FirstActive(st.races)
        ended == IF active = None THEN st.races
                 ELSE [st.races EXCEPT ![Val(active)].is_active = FALSE,
                                       ![Val(active)].end_time = Some(t)]
        exp == IF active # None /\ export_ok
               THEN Append(st.exported, Val(active)) ELSE st.exported
    IN IF mgr.scraper = None
       THEN [st EXCEPT !.ingestion_manager = Some(stopped)]
       ELSE [ingestion_manager |-> None,
             current_race_name |-> None,
             races |-> ended,
             exported |-> exp]

\* start_ingestion with the assignment of line 108 moved before line 100
RaceMonitor_start_ingestion_name_first(st, race_info, t, export_ok) ==
  LET s1 == RaceMonitor_stop_ingestion(st, t, export_ok)
      rows == Append(DeactivateAll(s1.races),
                     Race(Len(s1.races) + 1, race_info))
      s2 == [s1 EXCEPT !.races = rows,
                       !.current_race_name = Some(race_info.name)]
      made == DataIngestionManager_init({"series", "timing_url"},
                                        race_info.series)
  IN IF made.raised THEN s2
     ELSE LET s3 == [s2 EXCEPT !.ingestion_manager = Some(made.obj)]
          IN IF ~(start_ingestion_required \subseteq {})
             THEN s3
             ELSE [s3 EXCEPT
                     !.ingestion_manager =
                        Some([made.obj EXCEPT !.task = "scheduled"])]

\* start_ingestion without the update of line 83
RaceMonitor_start_ingestion_no_deactivate(st, race_info, t, export_ok) ==
  LET s1 == RaceMonitor_stop_ingestion(st, t, export_ok)
      rows == Append(s1.races, Race(Len(s1.races) + 1, race_info))
      s2 == [s1 EXCEPT !.races = rows]
      made == DataIngestionManager_init({"series", "timing_url"},
                                        race_info.series)
  IN IF made.raised THEN s2
     ELSE LET s3 == [s2 EXCEPT !.ingestion_manager = Some(made.obj)]
          IN IF ~(start_ingestion_required \subseteq {})
             THEN s3
             ELSE [s3 EXCEPT
                     !.ingestion_manager =
                        Some([made.obj EXCEPT !.task = "scheduled"]),
                     !.current_race_name = Some(race_info.name)]

(***************************************************************************)
(* RaceMonitor.start_ingestion.  Every exception is caught at line 111,    *)
(* after whatever was done before it.                                      *)
(***************************************************************************)
RaceMonitor_start_ingestion(st, race_info, t, export_ok) ==
  LET s1 == RaceMonitor_stop_ingestion(st, t, export_ok)
      rows == Append(DeactivateAll(s1.races),
                     Race(Len(s1.races) + 1, race_info))
      s2 == [s1 EXCEPT !.races = rows]
      made == DataIngestionManager_init({"series", "timing_url"},
                                        race_info.series)
  IN IF made.raised THEN s2
     ELSE LET s3 == [s2 EXCEPT !.ingestion_manager = Some(made.obj)]
          IN IF ~(start_ingestion_required \subseteq {})
             THEN s3
             ELSE [s3 EXCEPT
                     !.ingestion_manager =
                        Some([made.obj EXCEPT !.task = "scheduled"]),
                     !.current_race_name = Some(race_info.name)]

\* check_for_live_race that starts ingestion whatever the liveness test says
check_for_live_race_ignoring_liveness(st, sched, t, export_ok) ==
  LET next_race == get_next_race(sched, t)
  IN IF next_race = None
     THEN RaceMonitor_stop_ingestion(st, t, export_ok)
     ELSE IF st.ingestion_manager = None
             \/ st.current_race_name # Some(Val(next_race).name)
          THEN RaceMonitor_start_ingestion(st, Val(next_race), t, export_ok)
          ELSE st

(***************************************************************************)
(* RaceMonitor.check_for_live_race                                         *)
(***************************************************************************)
check_for_live_race(st, sched, t, export_ok) ==
  LET next_race == get_next_race(sched, t)
  IN IF next_race = None
     THEN RaceMonitor_stop_ingestion(st, t, export_ok)
     ELSE IF is_live(t, Val(next_race).date)
          THEN IF st.ingestion_manager = None
                  \/ st.current_race_name # Some(Val(next_race).name)
               THEN RaceMonitor_start_ingestion(st, Val(next_race), t,
                                                export_ok)
               ELSE st
          ELSE IF st.ingestion_manager # None
               THEN RaceMonitor_stop_ingestion(st, t, export_ok)
               ELSE st

\* is_scraping taken from the monitor's own flag
get_status_scraping_while_monitoring ==
  [is_monitoring |-> is_running,
   is_scraping |-> is_running,
   current_race |-> current_race_name,
   check_interval_seconds |-> check_interval]

\* RaceMonitor.get_status
get_status ==
  [is_monitoring |-> is_running,
   is_scraping |-> ingestion_manager # None,
   current_race |-> current_race_name,
   check_interval_seconds |-> check_interval]

(***************************************************************************)
(* What a poll saw: the time, the event get_next_race returned, the        *)
(* liveness decision, and the monitor and rows as they were before it.     *)
(***************************************************************************)
NoPoll == [n |-> 0, at |-> 0, next |-> None, live |-> FALSE,
           pre_manager |-> None, pre_races |-> <<>>,
           failed |-> FALSE, failures |-> 0]

Observe(t) ==
  LET next_race == get_next_race(all_races, t)
  IN [n |-> IF poll.n < 2 THEN poll.n + 1 ELSE 2,
      at |-> t,
      next |-> IF next_race = None THEN None ELSE Some(Val(next_race).name),
      live |-> next_race # None /\ is_live(t, Val(next_race).date),
      pre_manager |-> ingestion_manager,
      pre_races |-> races,
      failed |-> FALSE,
      failures |-> poll.failures]

\* one pass of the while loop of start_monitoring, up to its asyncio.sleep
PollAndSleep ==
  \E export_ok \in BOOLEAN :
    LET st == check_for_live_race(MonitorState, all_races, now, export_ok)
    IN /\ ingestion_manager' = st.ingestion_manager
       /\ current_race_name' = st.current_race_name
       /\ races' = st.races
       /\ exported' = st.exported
       /\ poll' = Observe(now)
       /\ wake' = now + (check_interval \div SecondsPerMinute)
       /\ mtask' = "sleeping"

(***************************************************************************)
(* start_monitoring: the task main.py creates at startup.  Nothing raises  *)
(* out of check_for_live_race: start_ingestion and stop_ingestion catch    *)
(* every Exception, and the schedule lookup and the liveness test cannot   *)
(* fail, so the loop always sleeps check_interval.                         *)
(***************************************************************************)
start_monitoring_begin ==
  /\ mtask = "created"
  /\ is_running' = TRUE
  /\ PollAndSleep
  /\ UNCHANGED <<now, all_races, stop_state, stop_seen>>
  /\ UNCHANGED <<live_vars, loop_vars>>

start_monitoring_poll ==
  /\ mtask = "sleeping"
  /\ now >= wake
  /\ is_running
  /\ PollAndSleep
  /\ UNCHANGED <<now, all_races, is_running, stop_state, stop_seen>>
  /\ UNCHANGED <<live_vars, loop_vars>>

\* without the try/except of lines 33-38 the exception ends the task
start_monitoring_poll_failed_no_except ==
  /\ (mtask = "created" \/ (mtask = "sleeping" /\ now >= wake /\ is_running))
  /\ poll.failures < MaxPollFailures
  /\ is_running' = TRUE
  /\ poll' = [poll EXCEPT !.at = now, !.failed = TRUE,
                          !.failures = poll.failures + 1]
  /\ mtask' = "done"
  /\ UNCHANGED <<now, all_races, ingestion_manager, current_race_name,
                 races, exported, wake, stop_state, stop_seen>>
  /\ UNCHANGED <<live_vars, loop_vars>>

(***************************************************************************)
(* One pass of the while loop in which check_for_live_race raises.  The    *)
(* only statements of check_for_live_race outside the try blocks of        *)
(* start_ingestion and stop_ingestion are the schedule lookup and the      *)
(* time arithmetic on its result (lines 42-55), so the exception comes     *)
(* before anything is changed; line 36 catches it and line 38 sleeps       *)
(* error_retry_interval.  The schedule of schedule.py never makes the      *)
(* lookup raise, so this step belongs to SpecRetry only.                   *)
(***************************************************************************)
start_monitoring_poll_failed ==
  /\ (mtask = "created" \/ (mtask = "sleeping" /\ now >= wake /\ is_running))
  /\ poll.failures < MaxPollFailures
  /\ is_running' = TRUE
  /\ poll' = [poll EXCEPT !.at = now, !.failed = TRUE,
                          !.failures = poll.failures + 1]
  /\ wake' = now + (error_retry_interval \div SecondsPerMinute)
  /\ mtask' = "sleeping"
  /\ UNCHANGED <<now, all_races, ingestion_manager, current_race_name,
                 races, exported, stop_state, stop_seen>>
  /\ UNCHANGED <<live_vars, loop_vars>>

start_monitoring_exit ==
  /\ mtask = "sleeping"
  /\ now >= wake
  /\ ~is_running
  /\ mtask' = "done"
  /\ UNCHANGED <<now, all_races, is_running, ingestion_manager,
                 current_race_name, races, exported, wake, stop_state,
                 poll, stop_seen>>
  /\ UNCHANGED <<live_vars, loop_vars>>

(***************************************************************************)
(* stop_monitoring: called by main.py's shutdown hook, which runs after    *)
(* the event loop has served, hence after the monitor task's first step.   *)
(***************************************************************************)
stop_monitoring ==
  /\ mtask # "created"
  /\ stop_state = "not_called"
  /\ \E export_ok \in BOOLEAN :
       LET st == RaceMonitor_stop_ingestion(MonitorState, now, export_ok)
       IN /\ ingestion_manager' = st.ingestion_manager
          /\ current_race_name' = st.current_race_name
          /\ races' = st.races
          /\ exported' = st.exported
  /\ is_running' = FALSE
  /\ stop_state' = "returned"
  /\ stop_seen' = [manager |-> ingestion_manager,
                   active |-> FirstActive(races),
                   rows |-> Len(races)]
  /\ UNCHANGED <<now, all_races, mtask, wake, poll>>
  /\ UNCHANGED <<live_vars, loop_vars>>

\* the clock
Tick ==
  /\ now < MaxTime
  /\ now' = now + 1
  /\ UNCHANGED <<all_races, is_running, ingestion_manager,
                 current_race_name, races, exported, mtask, wake,
                 stop_state, poll, stop_seen>>
  /\ UNCHANGED <<live_vars, loop_vars>>

(***************************************************************************)
(* The parts of the state a specification does not exercise.               *)
(***************************************************************************)
MonitorIdle ==
  /\ now = 0
  /\ all_races = <<>>
  /\ is_running = FALSE
  /\ ingestion_manager = None
  /\ current_race_name = None
  /\ races = <<>>
  /\ exported = <<>>
  /\ mtask = "created"
  /\ wake = 0
  /\ stop_state = "not_called"
  /\ poll = NoPoll
  /\ stop_seen = [manager |-> None, active |-> None, rows |-> 0]

NoLookup == [limit |-> 0, next_called |-> FALSE, next |-> None,
             upcoming_called |-> FALSE, upcoming |-> <<>>]

NoStatus == [calls |-> 0, result |-> None]

ProbeIdle ==
  probe = [now |-> 0, race_time |-> 0, decided |-> None, served |-> None]
LookupIdle == lookup = NoLookup
StatusIdle == status = NoStatus
SourceIdle == source = None
ParseIdle == parse = None

LiveIdle ==
  /\ ProbeIdle
  /\ LookupIdle
  /\ StatusIdle
  /\ SourceIdle
  /\ ParseIdle

LoopIdle ==
  /\ dim = DataIngestionManager_init({"series"}, "WEC").obj
  /\ session = None
  /\ driver = None
  /\ loops = <<>>
  /\ fetch_log = <<>>
  /\ callback_log = <<>>
  /\ stop_calls = <<>>
  /\ close_calls = 0

MonitorInit ==
  /\ now = 0
  /\ all_races \in Schedules
  /\ is_running = FALSE
  /\ ingestion_manager = None
  /\ current_race_name = None
  /\ races = <<>>
  /\ exported = <<>>
  /\ mtask = "created"
  /\ wake = 0
  /\ stop_state = "not_called"
  /\ poll = NoPoll
  /\ stop_seen = [manager |-> None, active |-> None, rows |-> 0]
  /\ LiveIdle
  /\ LoopIdle

MonitorNext ==
  \/ start_monitoring_begin
  \/ start_monitoring_poll
  \/ start_monitoring_exit
  \/ stop_monitoring
  \/ Tick

Spec == MonitorInit /\ [][MonitorNext]_vars

\* GET /api/status/monitor: a request handler calls race_monitor.get_status()
get_status_call ==
  /\ status.calls < MaxStatusCalls
  /\ status' = [calls |-> status.calls + 1, result |-> Some(get_status)]
  /\ UNCHANGED <<monitor_vars, loop_vars, probe, lookup, source, parse>>

\* the monitor with status requests arriving at any time
StatusNext ==
  \/ MonitorNext
  \/ get_status_call

SpecStatus == MonitorInit /\ [][StatusNext]_vars

\* the monitor with a schedule lookup that may raise
RetryNext ==
  \/ MonitorNext
  \/ start_monitoring_poll_failed

SpecRetry == MonitorInit /\ [][RetryNext]_vars

(***************************************************************************)
(* SpecLive: the two liveness tests applied to every (now, scheduled       *)
(* start) pair around the window.                                          *)
(***************************************************************************)
decide_liveness ==
  /\ probe.decided = None
  /\ probe' = [probe EXCEPT !.decided = Some(is_live(probe.now, probe.race_time))]
  /\ UNCHANGED <<monitor_vars, loop_vars, lookup, status, source, parse>>

LiveInit ==
  /\ MonitorIdle
  /\ LoopIdle
  /\ \E s \in {pre_roll + LiveMargin, pre_roll + LiveMargin + 1} :
       \E t \in 0..(s + max_duration + LiveMargin) :
         probe = [now |-> t, race_time |-> s, decided |-> None,
                  served |-> None]
  /\ LookupIdle
  /\ StatusIdle
  /\ SourceIdle
  /\ ParseIdle

\* GET /api/schedule/next and /upcoming: is_live served for an event
is_race_live_call ==
  /\ probe.served = None
  /\ probe' = [probe EXCEPT
                 !.served = Some(is_race_live(probe.now, probe.race_time))]
  /\ UNCHANGED <<monitor_vars, loop_vars, lookup, status, source, parse>>

LiveNext ==
  \/ decide_liveness
  \/ is_race_live_call

SpecLive == LiveInit /\ [][LiveNext]_vars

(***************************************************************************)
(* SpecSchedule: get_next_race and get_upcoming_races applied to every     *)
(* schedule of at most MaxEvents events with scheduled starts in           *)
(* 1..MaxDate, at every time in 0..MaxDate + 1.  The limit is the query    *)
(* parameter of /api/schedule/upcoming (main.py:107), any integer.         *)
(***************************************************************************)
EventNames == <<"EventA", "EventB", "EventC", "EventD", "EventE", "EventF">>

SmallSchedules ==
  UNION { { [i \in 1..n |-> ScheduledEvent(EventNames[i], "WEC", d[i])] :
              d \in [1..n -> 1..MaxDate] } : n \in 0..MaxEvents }

get_next_race_call ==
  /\ ~lookup.next_called
  /\ lookup' = [lookup EXCEPT !.next_called = TRUE,
                              !.next = get_next_race(all_races, now)]
  /\ UNCHANGED <<monitor_vars, loop_vars, probe, status, source, parse>>

get_upcoming_races_call ==
  /\ ~lookup.upcoming_called
  /\ lookup' = [lookup EXCEPT
                  !.upcoming_called = TRUE,
                  !.upcoming = get_upcoming_races(all_races, now, lookup.limit)]
  /\ UNCHANGED <<monitor_vars, loop_vars, probe, status, source, parse>>

ScheduleInit ==
  /\ now \in 0..(MaxDate + 1)
  /\ all_races \in SmallSchedules
  /\ is_running = FALSE
  /\ ingestion_manager = None
  /\ current_race_name = None
  /\ races = <<>>
  /\ exported = <<>>
  /\ mtask = "created"
  /\ wake = 0
  /\ stop_state = "not_called"
  /\ poll = NoPoll
  /\ stop_seen = [manager |-> None, active |-> None, rows |-> 0]
  /\ ProbeIdle
  /\ \E limit \in (0 - LimitBelow)..(MaxEvents + 1) :
       lookup = [NoLookup EXCEPT !.limit = limit]
  /\ StatusIdle
  /\ SourceIdle
  /\ ParseIdle
  /\ LoopIdle

ScheduleNext ==
  \/ get_next_race_call
  \/ get_upcoming_races_call

SpecSchedule == ScheduleInit /\ [][ScheduleNext]_vars

(***************************************************************************)
(* ingest.py: the scrapers and the ingestion loop.                         *)
(*                                                                         *)
(* A fetch attempt ends in one of:                                         *)
(*   "fail"   fetch_live_data returned {} (status, timeout, exception)     *)
(*   "raise"  an exception left fetch_live_data (init_driver is outside    *)
(*            its try; a manager without scraper has no fetch_live_data)   *)
(*   "empty"  a parsed snapshot with no cars                               *)
(*   "cars"   a parsed snapshot with cars                                  *)
(* and is "pending" while WECScraper awaits the HTTP response.             *)
(***************************************************************************)
SeriesNames == {"WEC", "IMSA", "FMSCI"}

\* a callback is in progress
CallbackOpen == \E l \in 1..Len(loops) : loops[l].pc = "callback"

\* WECScraper.init_session
init_session(sess) == IF sess = None THEN Some("open") ELSE sess

\* what one call of scraper.fetch_live_data() yields before it suspends
FetchOutcomes ==
  IF dim.series = "WEC"
  THEN IF init_session(session) = Some("closed") THEN {"fail"} ELSE {"pending"}
  ELSE IF dim.series = "IMSA"
  THEN (IF driver = None THEN {"raise"} ELSE {}) \cup {"fail", "empty", "cars"}
  ELSE {"raise"}

\* without the try/except of lines 279-293 an exception ends the loop
after_attempt_no_except(outcome) ==
  IF outcome = "cars" THEN "callback"
  ELSE IF outcome = "raise" THEN "done" ELSE "sleeping"

\* with "if data:" in place of "if data and data.get('cars'):"
after_attempt_no_cars_test(outcome) ==
  IF outcome \in {"cars", "empty"} THEN "callback" ELSE "sleeping"

\* lines 285-293: where the loop goes once the attempt has its outcome
after_attempt(outcome) ==
  IF outcome = "cars" THEN "callback" ELSE "sleeping"

\* a sleep that doubles after an exception
sleep_interval_backoff(raised) == IF raised THEN 2 * interval ELSE interval

\* the argument of asyncio.sleep: line 289, and line 293 after an exception
sleep_interval(raised) == interval

\* slept: the sleeps taken after the attempt; callback: how its callback ended
Attempt(outcome) ==
  [outcome |-> outcome,
   overlapped |-> CallbackOpen,
   callback |-> "none",
   slept |-> IF outcome # "pending" /\ after_attempt(outcome) = "sleeping"
             THEN <<sleep_interval(outcome = "raise")>> ELSE <<>>]

\* the while loop from its test up to the next await that suspends
LoopIterate(l) ==
  IF ~dim'.is_running
  THEN /\ loops' = [loops EXCEPT ![l].pc = "done"]
       /\ UNCHANGED <<session, driver, fetch_log, callback_log>>
  ELSE
    /\ Len(fetch_log) < MaxFetches
    /\ \E o \in FetchOutcomes :
         LET n == Len(fetch_log) + 1
             pc == IF o = "pending" THEN "fetching" ELSE after_attempt(o)
         IN /\ fetch_log' = Append(fetch_log, Attempt(o))
            /\ loops' = [loops EXCEPT ![l] = [pc |-> pc, attempt |-> n]]
            /\ callback_log' = IF pc = "callback"
                               THEN Append(callback_log, n) ELSE callback_log
            /\ session' = IF dim.series = "WEC"
                          THEN init_session(session) ELSE session
            /\ driver' = IF dim.series = "IMSA" /\ o # "raise"
                         THEN Some("chrome") ELSE driver

\* asyncio.create_task(manager.start_ingestion(callback)), race_monitor.py:106
create_task_start_ingestion ==
  /\ loops = <<>>
  /\ loops' = Append(loops, [pc |-> "scheduled", attempt |-> 0])
  /\ UNCHANGED <<dim, session, driver, fetch_log, callback_log, stop_calls,
                 close_calls>>
  /\ UNCHANGED <<monitor_vars, live_vars>>

\* the same call on a manager whose loop is running
create_task_start_ingestion_again ==
  /\ loops # <<>>
  /\ Len(loops) < MaxStarts
  /\ dim.is_running
  /\ \E l \in 1..Len(loops) : loops[l].pc \notin {"scheduled", "done"}
  /\ loops' = Append(loops, [pc |-> "scheduled", attempt |-> 0])
  /\ UNCHANGED <<dim, session, driver, fetch_log, callback_log, stop_calls,
                 close_calls>>
  /\ UNCHANGED <<monitor_vars, live_vars>>

\* DataIngestionManager.start_ingestion: from its first line
start_ingestion_enter(l) ==
  /\ loops[l].pc = "scheduled"
  /\ dim' = [dim EXCEPT !.is_running = TRUE]
  /\ LoopIterate(l)
  /\ UNCHANGED <<stop_calls, close_calls>>
  /\ UNCHANGED <<monitor_vars, live_vars>>

\* the HTTP response of WECScraper.fetch_live_data arrives (or fails)
start_ingestion_fetched(l) ==
  /\ loops[l].pc = "fetching"
  /\ \E o \in IF session = Some("closed") THEN {"fail"}
              ELSE {"fail", "empty", "cars"} :
       LET n == loops[l].attempt
           pc == after_attempt(o)
       IN /\ fetch_log' = [fetch_log EXCEPT
                             ![n].outcome = o,
                             ![n].slept = IF pc = "sleeping"
                                          THEN <<sleep_interval(FALSE)>>
                                          ELSE @]
          /\ loops' = [loops EXCEPT ![l].pc = pc]
          /\ callback_log' = IF pc = "callback"
                             THEN Append(callback_log, n) ELSE callback_log
  /\ UNCHANGED <<dim, session, driver, stop_calls, close_calls>>
  /\ UNCHANGED <<monitor_vars, live_vars>>

\* the callback returns or raises: either way the loop sleeps next
start_ingestion_callback_done(l) ==
  /\ loops[l].pc = "callback"
  /\ loops' = [loops EXCEPT ![l].pc = "sleeping"]
  /\ \E raised \in BOOLEAN :
       fetch_log' = [fetch_log EXCEPT
                       ![loops[l].attempt].callback =
                          IF raised THEN "raised" ELSE "returned",
                       ![loops[l].attempt].slept =
                          Append(@, sleep_interval(raised))]
  /\ UNCHANGED <<dim, session, driver, callback_log, stop_calls,
                 close_calls>>
  /\ UNCHANGED <<monitor_vars, live_vars>>

\* asyncio.sleep(interval) ends
start_ingestion_wake(l) ==
  /\ loops[l].pc = "sleeping"
  /\ dim' = dim
  /\ LoopIterate(l)
  /\ UNCHANGED <<stop_calls, close_calls>>
  /\ UNCHANGED <<monitor_vars, live_vars>>

(***************************************************************************)
(* DataIngestionManager.stop_ingestion.  WECScraper.close awaits           *)
(* session.close() whenever a session object exists, closed or not;        *)
(* IMSAScraper.close quits the driver and forgets it; a manager without    *)
(* scraper raises AttributeError after the flag is cleared.                *)
(***************************************************************************)
DataIngestionManager_stop_ingestion ==
  /\ loops # <<>>
  /\ Len(stop_calls) < MaxStops
  /\ dim' = [dim EXCEPT !.is_running = FALSE]
  /\ IF dim.series = "WEC"
     THEN IF session # None
          THEN /\ session' = Some("closed")
               /\ close_calls' = close_calls + 1
               /\ stop_calls' = Append(stop_calls, "closing")
               /\ UNCHANGED driver
          ELSE /\ stop_calls' = Append(stop_calls, "returned")
               /\ UNCHANGED <<session, driver, close_calls>>
     ELSE IF dim.series = "IMSA"
     THEN /\ driver' = None
          /\ close_calls' = IF driver # None THEN close_calls + 1
                            ELSE close_calls
          /\ stop_calls' = Append(stop_calls, "returned")
          /\ UNCHANGED session
     ELSE /\ stop_calls' = Append(stop_calls, "raised")
          /\ UNCHANGED <<session, driver, close_calls>>
  /\ UNCHANGED <<loops, fetch_log, callback_log>>
  /\ UNCHANGED <<monitor_vars, live_vars>>

\* await self.session.close() completes
stop_ingestion_closed(c) ==
  /\ stop_calls[c] = "closing"
  /\ stop_calls' = [stop_calls EXCEPT ![c] = "returned"]
  /\ UNCHANGED <<dim, session, driver, loops, fetch_log, callback_log,
                 close_calls>>
  /\ UNCHANGED <<monitor_vars, live_vars>>

(***************************************************************************)
(* SpecSource: one scraper under any sequence of open, fetch and close     *)
(* calls.  Every aiohttp.ClientSession or Chrome driver the scraper        *)
(* constructs gets the next number; live holds the numbers of those not    *)
(* yet closed or quit, handle is self.session or self.driver.              *)
(***************************************************************************)
NewSource(kind) ==
  [kind |-> kind, handle |-> None, live |-> {}, acquired |-> 0, calls |-> 0,
   last |-> [op |-> "none", pre_handle |-> None, pre_live |-> {},
             pre_acquired |-> 0, raised |-> FALSE],
   seen |-> {}]

\* a ClientSession or a driver has been constructed and stored
Acquire(src) ==
  [src EXCEPT !.handle = Some(src.acquired + 1),
              !.live = @ \cup {src.acquired + 1},
              !.acquired = @ + 1]

Returned(src) == [src |-> src, raised |-> FALSE]
Raised(src) == [src |-> src, raised |-> TRUE]

\* init_session without the "if not self.session" test
WECScraper_init_session_unguarded(src) == Returned(Acquire(src))

\* WECScraper.init_session
WECScraper_init_session(src) ==
  IF src.handle = None THEN Returned(Acquire(src)) ELSE Returned(src)

\* WECScraper.close: ClientSession.close() does nothing on a closed session,
\* and self.session keeps the closed session
WECScraper_close(src) ==
  IF src.handle # None
  THEN Returned([src EXCEPT !.live = @ \ {Val(src.handle)}])
  ELSE Returned(src)

\* WECScraper.fetch_live_data: init_session, then a request whose every
\* failure is caught
WECScraper_fetch_live_data(src) == WECScraper_init_session(src)

\* IMSAScraper.init_driver: installing or launching Chrome may raise
IMSAScraper_init_driver(src, launch_ok) ==
  IF src.handle = None
  THEN IF launch_ok THEN Returned(Acquire(src)) ELSE Raised(src)
  ELSE Returned(src)

\* IMSAScraper.close: driver.quit() may raise, and then self.driver stays
IMSAScraper_close(src, quit_ok) ==
  IF src.handle # None
  THEN IF quit_ok
       THEN Returned([src EXCEPT !.live = @ \ {Val(src.handle)},
                                 !.handle = None])
       ELSE Raised(src)
  ELSE Returned(src)

\* IMSAScraper.fetch_live_data: init_driver outside the try, then the page
\* load inside it
IMSAScraper_fetch_live_data(src, launch_ok) ==
  IMSAScraper_init_driver(src, launch_ok)

IsOpen(src) == src.handle # None /\ Val(src.handle) \in src.live

\* the source after a call, with the call recorded
AfterCall(op, r) ==
  [r.src EXCEPT
     !.calls = @ + 1,
     !.last = [op |-> op, pre_handle |-> source.handle,
               pre_live |-> source.live, pre_acquired |-> source.acquired,
               raised |-> r.raised],
     !.seen = @ \cup (IF op = "open" /\ IsOpen(source) THEN {"open_on_open"}
                      ELSE IF op = "close" /\ source.acquired = 0
                      THEN {"close_on_new"}
                      ELSE IF op = "close" /\ ~IsOpen(source)
                      THEN {"close_on_closed"}
                      ELSE {})]

init_call ==
  /\ source.calls < MaxSourceCalls
  /\ \E ok \in BOOLEAN :
       source' = AfterCall("open",
                   IF source.kind = "WEC"
                   THEN WECScraper_init_session(source)
                   ELSE IMSAScraper_init_driver(source, ok))
  /\ UNCHANGED <<monitor_vars, loop_vars, probe, lookup, status, parse>>

fetch_live_data_call ==
  /\ source.calls < MaxSourceCalls
  /\ \E ok \in BOOLEAN :
       source' = AfterCall("fetch",
                   IF source.kind = "WEC"
                   THEN WECScraper_fetch_live_data(source)
                   ELSE IMSAScraper_fetch_live_data(source, ok))
  /\ UNCHANGED <<monitor_vars, loop_vars, probe, lookup, status, parse>>

close_call ==
  /\ source.calls < MaxSourceCalls
  /\ \E ok \in BOOLEAN :
       source' = AfterCall("close",
                   IF source.kind = "WEC"
                   THEN WECScraper_close(source)
                   ELSE IMSAScraper_close(source, ok))
  /\ UNCHANGED <<monitor_vars, loop_vars, probe, lookup, status, parse>>

SourceInit ==
  /\ MonitorIdle
  /\ LoopIdle
  /\ ProbeIdle
  /\ LookupIdle
  /\ StatusIdle
  /\ ParseIdle
  /\ \E kind \in {"WEC", "IMSA"} : source = NewSource(kind)

SourceNext ==
  \/ init_call
  \/ fetch_live_data_call
  \/ close_call

SpecSource == SourceInit /\ [][SourceNext]_vars

LoopInit ==
  /\ MonitorIdle
  /\ LiveIdle
  /\ \E series \in SeriesNames :
       dim = DataIngestionManager_init({"series"}, series).obj
  /\ session = None
  /\ driver = None
  /\ loops = <<>>
  /\ fetch_log = <<>>
  /\ callback_log = <<>>
  /\ stop_calls = <<>>
  /\ close_calls = 0

LoopNext ==
  \/ create_task_start_ingestion
  \/ \E l \in 1..Len(loops) : start_ingestion_enter(l)
  \/ \E l \in 1..Len(loops) : start_ingestion_fetched(l)
  \/ \E l \in 1..Len(loops) : start_ingestion_callback_done(l)
  \/ \E l \in 1..Len(loops) : start_ingestion_wake(l)
  \/ DataIngestionManager_stop_ingestion
  \/ \E c \in 1..Len(stop_calls) : stop_ingestion_closed(c)

SpecLoop == LoopInit /\ [][LoopNext]_vars

LoopAPINext ==
  \/ LoopNext
  \/ create_task_start_ingestion_again

SpecLoopAPI == LoopInit /\ [][LoopAPINext]_vars

(***************************************************************************)
(* ingest.py: text conversion.                                             *)
(*                                                                         *)
(* A text is a sequence of characters; the words "LAP" and "Leader" and    *)
(* the placeholder "x" (any letter run that is no number) count as one     *)
(* character each.  The texts drawn use no sign but "+", no exponent and   *)
(* no underscore, and the conversions below are Python's int() and         *)
(* float() on such texts.  A number is kept exactly, as its whole part     *)
(* and the digits of its fraction without trailing zeros.                  *)
(***************************************************************************)
Digits == <<"0", "1", "2", "3", "4", "5", "6", "7", "8", "9">>

IsDigit(c) == \E n \in 1..Len(Digits) : Digits[n] = c
DigitValue(c) == (CHOOSE n \in 1..Len(Digits) : Digits[n] = c) - 1

RECURSIVE DigitsValue(_)
DigitsValue(s) ==
  IF s = <<>> THEN 0
  ELSE DigitsValue(SubSeq(s, 1, Len(s) - 1)) * 10 + DigitValue(s[Len(s)])

RECURSIVE TrimZeros(_)
TrimZeros(s) ==
  IF s # <<>> /\ s[Len(s)] = "0" THEN TrimZeros(SubSeq(s, 1, Len(s) - 1))
  ELSE s

Decimal(units, frac) == [units |-> units, frac |-> TrimZeros(frac)]
Zero == Decimal(0, <<>>)

Contains(s, c) == \E i \in 1..Len(s) : s[i] = c
Positions(s, c) == {i \in 1..Len(s) : s[i] = c}
First(S) == CHOOSE i \in S : \A j \in S : i <= j
Last(S) == CHOOSE i \in S : \A j \in S : j <= i

\* str.strip()
strip(s) ==
  LET inked == {i \in 1..Len(s) : s[i] # " "}
  IN IF inked = {} THEN <<>> ELSE SubSeq(s, First(inked), Last(inked))

\* str.replace(c, '')
remove(s, c) == SelectSeq(s, LAMBDA d : d # c)

\* s.split(':')[0] and s.split(':')[1] of a text that holds a ':'
split_colon_0(s) == SubSeq(s, 1, First(Positions(s, ":")) - 1)
split_colon_1(s) ==
  LET rest == SubSeq(s, First(Positions(s, ":")) + 1, Len(s))
  IN IF Contains(rest, ":")
     THEN SubSeq(rest, 1, First(Positions(rest, ":")) - 1)
     ELSE rest

\* s.split()[0]: the first run of non-blank characters; none raises
split_blank_0(s) ==
  LET t == strip(s)
  IN IF t = <<>> THEN None
     ELSE IF Contains(t, " ")
     THEN Some(SubSeq(t, 1, First(Positions(t, " ")) - 1))
     ELSE Some(t)

unsigned(s) == IF s # <<>> /\ s[1] = "+" THEN Tail(s) ELSE s

\* int(s): None stands for ValueError
python_int(s) ==
  LET t == unsigned(strip(s))
  IN IF t # <<>> /\ \A i \in 1..Len(t) : IsDigit(t[i])
     THEN Some(DigitsValue(t))
     ELSE None

\* float(s): None stands for ValueError
python_float(s) ==
  LET t == unsigned(strip(s))
      dots == Positions(t, ".")
  IN IF /\ \A i \in 1..Len(t) : IsDigit(t[i]) \/ t[i] = "."
        /\ \E i \in 1..Len(t) : IsDigit(t[i])
        /\ Cardinality(dots) <= 1
     THEN IF dots = {}
          THEN Some(Decimal(DigitsValue(t), <<>>))
          ELSE LET d == First(dots)
               IN Some(Decimal(DigitsValue(SubSeq(t, 1, d - 1)),
                               SubSeq(t, d + 1, Len(t))))
     ELSE None

\* _safe_extract: found is the element's text, or None without an element
safe_extract(found) ==
  IF found = None THEN None ELSE Some(strip(Val(found)))

\* _safe_extract_int
safe_extract_int(found) ==
  LET text == safe_extract(found)
  IN IF text = None \/ Val(text) = <<>> THEN None ELSE python_int(Val(text))

\* _safe_extract_float: "':' in None" raises TypeError, caught like the rest
safe_extract_float(found) ==
  LET text == safe_extract(found)
  IN IF text = None THEN None
     ELSE IF Contains(Val(text), ":")
     THEN LET minutes == python_int(split_colon_0(Val(text)))
              seconds == python_float(split_colon_1(Val(text)))
          IN IF minutes = None \/ seconds = None THEN None
             ELSE Some(Decimal(Val(minutes) * 60 + Val(seconds).units,
                               Val(seconds).frac))
     ELSE python_float(Val(text))

\* _safe_extract_gap
safe_extract_gap(found) ==
  LET text == safe_extract(found)
  IN IF text = None \/ Val(text) = <<>> \/ Val(text) = <<"Leader">>
     THEN Some(Zero)
     ELSE IF Contains(Val(text), "LAP")
     THEN LET word == split_blank_0(Val(text))
              laps == IF word = None THEN None
                      ELSE python_int(remove(Val(word), "+"))
          IN IF laps = None THEN None
             ELSE Some(Decimal(Val(laps) * lap_proxy, <<>>))
     ELSE python_float(remove(Val(text), "+"))

\* the dict built for one timing row, lines 87-97
car_data(row) ==
  [car_number |-> safe_extract(row.car_number),
   team_name |-> safe_extract(row.team_name),
   car_class |-> safe_extract(row.car_class),
   position |-> safe_extract_int(row.position),
   laps_completed |-> safe_extract_int(row.laps_completed),
   last_lap_time |-> safe_extract_float(row.last_lap_time),
   best_lap_time |-> safe_extract_float(row.best_lap_time),
   gap_to_leader |-> safe_extract_gap(row.gap_to_leader),
   in_pit |-> row.pit]

\* _parse_wec_html on the timing rows of a page
parse_wec_html(rows) ==
  [series |-> "WEC", cars |-> [i \in 1..Len(rows) |-> car_data(rows[i])]]

(***************************************************************************)
(* SpecParse: the conversions applied to every lap-time text of at most    *)
(* MaxLapTextLen characters, to every gap text of at most MaxGapTextLen    *)
(* characters, and to every page of at most MaxRows rows of which each     *)
(* has at most one cell missing or unreadable.  Texts come from            *)
(* _safe_extract, hence stripped.                                          *)
(***************************************************************************)
LapChars == {"0", "1", ":", "."}
GapChars == {"1", ".", "+", " ", "LAP", "S", "Leader"}

TextsOver(chars, n) ==
  UNION { [1..k -> chars] : k \in 0..n }

Stripped(chars, n) == {s \in TextsOver(chars, n) : strip(s) = s}

OptionalFields == {"team_name", "car_class", "position", "laps_completed",
                   "last_lap_time", "best_lap_time", "gap_to_leader"}
NumericFields == {"position", "laps_completed", "last_lap_time",
                  "best_lap_time", "gap_to_leader"}

GoodRow ==
  [car_number |-> Some(<<"7">>),
   team_name |-> Some(<<"x">>),
   car_class |-> Some(<<"x">>),
   position |-> Some(<<"1">>),
   laps_completed |-> Some(<<"1", "0">>),
   last_lap_time |-> Some(<<"1", ":", "0", "1", ".", "5">>),
   best_lap_time |-> Some(<<"1", ":", "0", "0">>),
   gap_to_leader |-> Some(<<"+", "1", ".", "5">>),
   pit |-> FALSE]

\* the good row, or the good row with one cell missing or unreadable
TimingRows ==
  {GoodRow}
  \cup {[GoodRow EXCEPT ![f] = None] : f \in OptionalFields}
  \cup {[GoodRow EXCEPT ![f] = Some(<<"x">>)] : f \in NumericFields}

Pages == UNION { [1..k -> TimingRows] : k \in 0..MaxRows }

safe_extract_float_call ==
  /\ parse.fn = "float"
  /\ ~parse.called
  /\ parse' = [parse EXCEPT !.called = TRUE,
                            !.result = safe_extract_float(parse.input)]
  /\ UNCHANGED <<monitor_vars, loop_vars, probe, lookup, status, source>>

safe_extract_gap_call ==
  /\ parse.fn = "gap"
  /\ ~parse.called
  /\ parse' = [parse EXCEPT !.called = TRUE,
                            !.result = safe_extract_gap(parse.input)]
  /\ UNCHANGED <<monitor_vars, loop_vars, probe, lookup, status, source>>

parse_wec_html_call ==
  /\ parse.fn = "page"
  /\ ~parse.called
  /\ parse' = [parse EXCEPT !.called = TRUE,
                            !.result = parse_wec_html(parse.input)]
  /\ UNCHANGED <<monitor_vars, loop_vars, probe, lookup, status, source>>

ParseInit ==
  /\ MonitorIdle
  /\ LoopIdle
  /\ ProbeIdle
  /\ LookupIdle
  /\ StatusIdle
  /\ SourceIdle
  /\ \/ \E s \in Stripped(LapChars, MaxLapTextLen) :
          parse = [fn |-> "float", input |-> Some(s), called |-> FALSE,
                   result |-> None]
     \/ \E s \in Stripped(GapChars, MaxGapTextLen) :
          parse = [fn |-> "gap", input |-> Some(s), called |-> FALSE,
                   result |-> None]
     \/ \E fn \in {"float", "gap"} :
          parse = [fn |-> fn, input |-> None, called |-> FALSE,
                   result |-> None]
     \/ \E page \in Pages :
          parse = [fn |-> "page", input |-> page, called |-> FALSE,
                   result |-> None]

ParseNext ==
  \/ safe_extract_float_call
  \/ safe_extract_gap_call
  \/ parse_wec_html_call

SpecParse == ParseInit /\ [][ParseNext]_vars

(***************************************************************************)
(*                              Properties                                 *)
(***************************************************************************)

(***************************************************************************)
(* The session the monitor opened for an event leaves one lasting trace:   *)
(* the race row start_ingestion inserted for it, active until the session  *)
(* is ended.  SessionRow is that row (its id), SessionEvent its event.     *)
(***************************************************************************)
SessionRow(rows) == FirstActive(rows)
SessionEvent(rows) == rows[Val(SessionRow(rows))]

\* the latest poll has completed and nothing but the clock has moved since
AfterPoll == poll.n > 0 /\ ~poll.failed /\ stop_state = "not_called"

\* the liveness window as the specification states it, in minutes
InWindow(t, scheduled_start) ==
  (0 - 30) <= t - scheduled_start /\ t - scheduled_start <= 720

Cex_C3 ==
  (/\ AfterPoll
   /\ poll.pre_manager = None
   /\ poll.next = Some("EventA")
   /\ poll.live)
  => /\ ingestion_manager # None
     /\ Val(ingestion_manager).task = "scheduled"
     /\ get_status.is_scraping
     /\ get_status.current_race = Some("EventA")

Cex_C5 ==
  stop_state = "returned"
  => /\ ingestion_manager = None
     /\ FirstActive(races) = None
     /\ Len(races) = stop_seen.rows

Failed(n) == fetch_log[n].outcome \in {"fail", "raise"}

Thm_C8 ==
  /\ stop_calls = <<>>
     => \A l \in 1..Len(loops) :
          /\ loops[l].pc # "done"
          /\ loops[l].pc # "scheduled" => dim.is_running
  /\ (/\ Len(fetch_log) >= 3
      /\ Failed(1)
      /\ Failed(2)
      /\ fetch_log[3].outcome = "cars")
     => SelectSeq(callback_log, LAMBDA n : n <= 3) = <<3>>

\* two failures, then cars: one callback, and the loop sleeps towards attempt 4
Wit_C8 ==
  /\ stop_calls = <<>>
  /\ Len(fetch_log) = 3
  /\ Failed(1)
  /\ Failed(2)
  /\ fetch_log[3].outcome = "cars"
  /\ callback_log = <<3>>
  /\ loops[1].pc = "sleeping"
  /\ dim.is_running

(***************************************************************************)
(* C9.  The callback is invoked exactly once for each attempt that         *)
(* returned cars, for no other attempt, in attempt order; no attempt       *)
(* begins while a callback is in progress and no two callbacks overlap.    *)
(***************************************************************************)
CarsAttempts ==
  SelectSeq([n \in 1..Len(fetch_log) |-> n],
            LAMBDA n : fetch_log[n].outcome = "cars")

Thm_C9 ==
  /\ callback_log = CarsAttempts
  /\ \A n \in 1..Len(fetch_log) : ~fetch_log[n].overlapped
  /\ Cardinality({l \in 1..Len(loops) :
                    loops[l].pc \in {"fetching", "callback"}}) <= 1

\* two snapshots delivered, an attempt without cars in between or around
Wit_C9 ==
  /\ Len(callback_log) = 2
  /\ \E n \in 1..Len(fetch_log) : fetch_log[n].outcome \in {"empty", "fail"}
  /\ \A l \in 1..Len(loops) : loops[l].pc = "sleeping"

(***************************************************************************)
(* C10.  Idempotence: start on a running manager creates no second fetch   *)
(* loop, and once the manager is stopped and its loops have ended, further *)
(* stops have not closed the source again.                                 *)
(***************************************************************************)
Cex_C10 ==
  /\ Cardinality({l \in 1..Len(loops) :
                    loops[l].pc \notin {"scheduled", "done"}}) <= 1
  /\ (~dim.is_running /\ \A l \in 1..Len(loops) : loops[l].pc = "done")
     => close_calls <= 1


(***************************************************************************)
(* C11.  The source is closed only after the loop has exited: whenever a   *)
(* close has been performed on the session or driver, every loop task has  *)
(* ended, so no fetch or callback is in progress at the close and none is  *)
(* begun after it.                                                         *)
(***************************************************************************)
Cex_C11 ==
  close_calls > 0 => \A l \in 1..Len(loops) : loops[l].pc = "done"


(***************************************************************************)
(* C13.  A poll that raises does not end the monitor loop: the task ends   *)
(* only after stop_monitoring, and while it sleeps it is due again 1       *)
(* minute (60 s) after a failed poll and 5 minutes (300 s) after a         *)
(* successful one.                                                         *)
(***************************************************************************)
Thm_C13 ==
  /\ mtask = "done" => stop_state = "returned"
  /\ mtask = "sleeping"
     => wake = poll.at + (IF poll.failed THEN 1 ELSE 5)

\* a poll has failed, and a later poll has run
Wit_C13 ==
  /\ poll.failures > 0
  /\ ~poll.failed
  /\ poll.n > 0
  /\ mtask = "sleeping"
  /\ stop_state = "not_called"


\* the positions of the events of the schedule that start after now
Future == {i \in 1..Len(all_races) : all_races[i].date > now}

(***************************************************************************)
(* C14.  get_next_race returns an event of the schedule that starts        *)
(* strictly after now and no later than any other such event, and returns  *)
(* none exactly when no event starts strictly after now.                   *)
(***************************************************************************)
Thm_C14 ==
  lookup.next_called
  => /\ lookup.next = None <=> Future = {}
     /\ lookup.next # None
        => /\ \E i \in Future : all_races[i] = Val(lookup.next)
           /\ \A i \in Future : Val(lookup.next).date <= all_races[i].date

\* an event starts exactly now, and a later one is returned ahead of a third
Wit_C14 ==
  /\ lookup.next_called
  /\ \E i \in 1..Len(all_races) : all_races[i].date = now
  /\ lookup.next # None
  /\ \E i \in Future : all_races[i].date > Val(lookup.next).date

(***************************************************************************)
(* C15.  get_upcoming_races(limit) returns at most limit events, each      *)
(* starting strictly after now, in ascending order of scheduled start,     *)
(* and no event left out starts after now and before a returned one.       *)
(***************************************************************************)
Cex_C15 ==
  lookup.upcoming_called
  => LET r == lookup.upcoming
     IN /\ Len(r) <= lookup.limit
        /\ \A j \in 1..Len(r) :
             /\ r[j].date > now
             /\ \E i \in Future : all_races[i] = r[j]
        /\ \A j \in 1..(Len(r) - 1) : r[j].date <= r[j + 1].date
        /\ \A i \in Future :
             (\A j \in 1..Len(r) : r[j] # all_races[i])
             => \A j \in 1..Len(r) : r[j].date <= all_races[i].date


(***************************************************************************)
(* C16.  A call of get_status changes neither the monitor's running flag,  *)
(* its ingestion manager, its current race name, the ingestion loop's      *)
(* running flag nor any race row, and the status it returns has            *)
(* is_scraping false exactly when the monitor has no ingestion manager.    *)
(***************************************************************************)
Thm_C16 ==
  [][status' # status
     => /\ UNCHANGED <<is_running, ingestion_manager, current_race_name,
                       dim, races>>
        /\ Val(status'.result).is_scraping = FALSE
           <=> ingestion_manager = None]_vars

\* a status taken while the monitor runs and a race row is active
Wit_C16 ==
  /\ status.calls > 0
  /\ Val(status.result).is_monitoring
  /\ Val(status.result).is_scraping = FALSE
  /\ SessionRow(races) # None


(***************************************************************************)
(* C17.  A scraper holds at most one open session or driver at any time;   *)
(* init_session / init_driver on an open scraper returns without           *)
(* constructing anything and leaves the session or driver as it was; and   *)
(* close on a scraper that was never opened or is already closed returns   *)
(* without raising and changes nothing.                                    *)
(***************************************************************************)
Thm_C17 ==
  LET l == source.last
      untouched == /\ ~l.raised
                   /\ source.acquired = l.pre_acquired
                   /\ source.handle = l.pre_handle
                   /\ source.live = l.pre_live
  IN /\ Cardinality(source.live) <= 1
     /\ (l.op = "open" /\ l.pre_handle # None
           /\ Val(l.pre_handle) \in l.pre_live) => untouched
     /\ (l.op = "close"
           /\ (l.pre_handle = None \/ Val(l.pre_handle) \notin l.pre_live))
        => untouched

\* the scraper was closed before any open, opened twice and closed twice
Wit_C17 ==
  /\ source # None
  /\ source.seen = {"close_on_new", "open_on_open", "close_on_closed"}
  /\ source.last.op = "close"
  /\ source.acquired > 0


\* a text made of digits and at most one '.', with a digit: a plain number
NumericForm(s) ==
  /\ \A i \in 1..Len(s) : IsDigit(s[i]) \/ s[i] = "."
  /\ \E i \in 1..Len(s) : IsDigit(s[i])
  /\ Cardinality(Positions(s, ".")) <= 1

\* the number a plain-number text denotes
NumberOf(s) ==
  IF Contains(s, ".")
  THEN LET d == First(Positions(s, "."))
       IN Decimal(DigitsValue(SubSeq(s, 1, d - 1)), SubSeq(s, d + 1, Len(s)))
  ELSE Decimal(DigitsValue(s), <<>>)

AllDigits(s) == s # <<>> /\ \A i \in 1..Len(s) : IsDigit(s[i])

\* M:SS.mmm, read generously: digits, one ':', a plain number
LapForm(s) ==
  /\ Cardinality(Positions(s, ":")) = 1
  /\ AllDigits(SubSeq(s, 1, First(Positions(s, ":")) - 1))
  /\ NumericForm(SubSeq(s, First(Positions(s, ":")) + 1, Len(s)))

(***************************************************************************)
(* C19.  _safe_extract_float turns a text M:SS.mmm into M*60 + SS.mmm, a   *)
(* plain number into its value, and every other text, those with more      *)
(* than one ':' included, into None.                                       *)
(***************************************************************************)
Cex_C19 ==
  (parse # None /\ parse.fn = "float" /\ parse.called /\ parse.input # None)
  => LET s == Val(parse.input)
         c == First(Positions(s, ":"))
     IN IF LapForm(s)
        THEN LET seconds == NumberOf(SubSeq(s, c + 1, Len(s)))
             IN parse.result =
                  Some(Decimal(DigitsValue(SubSeq(s, 1, c - 1)) * 60
                                 + seconds.units, seconds.frac))
        ELSE IF NumericForm(s)
        THEN parse.result = Some(NumberOf(s))
        ELSE parse.result = None

\* "+N LAP" or "+N LAPS"
LapsForm(s) ==
  /\ Len(s) >= 4
  /\ s[1] = "+"
  /\ \E k \in 2..(Len(s) - 2) :
       /\ AllDigits(SubSeq(s, 2, k))
       /\ SubSeq(s, k + 1, Len(s)) \in {<<" ", "LAP">>, <<" ", "LAP", "S">>}

LapsOf(s) == DigitsValue(SelectSeq(s, IsDigit))

(***************************************************************************)
(* C20.  _safe_extract_gap turns "+N LAP" and "+N LAPS" into N * 100,      *)
(* "Leader" into 0, "+S.mmm" into S.mmm, and every other text, the empty   *)
(* one included, into None.                                                *)
(***************************************************************************)
Cex_C20 ==
  (parse # None /\ parse.fn = "gap" /\ parse.called /\ parse.input # None)
  => LET s == Val(parse.input)
     IN IF LapsForm(s)
        THEN parse.result = Some(Decimal(LapsOf(s) * 100, <<>>))
        ELSE IF s = <<"Leader">>
        THEN parse.result = Some(Zero)
        ELSE IF s # <<>> /\ s[1] = "+" /\ NumericForm(Tail(s))
        THEN parse.result = Some(NumberOf(Tail(s)))
        ELSE parse.result = None


\* the cell of a row cannot be extracted: no element, or no number in it
Unextractable(row, f) == row[f] # GoodRow[f]

(***************************************************************************)
(* C18.  _parse_wec_html returns one car record per timing row; a field    *)
(* whose cell cannot be extracted is None in that record, and every other  *)
(* field of every record is what the intact row yields.                    *)
(***************************************************************************)
Cex_C18 ==
  (parse # None /\ parse.fn = "page" /\ parse.called)
  => /\ Len(parse.result.cars) = Len(parse.input)
     /\ \A i \in 1..Len(parse.input) : \A f \in OptionalFields :
          IF Unextractable(parse.input[i], f)
          THEN parse.result.cars[i][f] = None
          ELSE parse.result.cars[i][f] = car_data(GoodRow)[f]


\* the latest poll ran start_ingestion: it inserted a race row
StartedIngestion == AfterPoll /\ Len(races) > Len(poll.pre_races)

(***************************************************************************)
(* C21.  When a poll starts ingestion for a live event, the monitor held   *)
(* no ingestion manager at that point and every race row that existed      *)
(* before the poll is inactive afterwards.                                 *)
(***************************************************************************)
Thm_C21 ==
  StartedIngestion
  => /\ poll.pre_manager = None
     /\ \A i \in 1..Len(poll.pre_races) : ~races[i].is_active

\* a start while the row of an earlier start was still active
Wit_C21 ==
  /\ StartedIngestion
  /\ \E i \in 1..Len(poll.pre_races) : poll.pre_races[i].is_active


\* the ids of the race rows marked active
ActiveRows == {i \in 1..Len(races) : races[i].is_active}

(***************************************************************************)
(* C26.  At most one race row is marked active, whatever starts and stops  *)
(* the monitor has performed.                                              *)
(***************************************************************************)
Thm_C26 == Cardinality(ActiveRows) <= 1

\* three starts have inserted rows, and only the latest is active
Wit_C26 ==
  /\ Len(races) >= 3
  /\ ActiveRows = {Len(races)}

(***************************************************************************)
(* C24.  A race row is active only while the monitor holds an ingestion    *)
(* manager.                                                                *)
(***************************************************************************)
Cex_C24 == ActiveRows # {} => ingestion_manager # None

Thm_C30 ==
  [][(/\ poll' # poll
      /\ ~poll'.failed
      /\ poll'.next # None
      /\ ~poll'.live
      /\ ingestion_manager = None)
     => /\ UNCHANGED <<ingestion_manager, races, exported>>
        /\ current_race_name' = None]_vars

\* a poll before the pre-roll of the next event, with no manager
Wit_C30 ==
  /\ AfterPoll
  /\ poll.next # None
  /\ ~poll.live
  /\ poll.pre_manager = None
  /\ ingestion_manager = None
  /\ races = poll.pre_races


(***************************************************************************)
(* C23.  Between two consecutive fetch attempts of the ingestion loop      *)
(* there is exactly one sleep, of the configured interval, whatever the    *)
(* earlier attempt and its callback did; the latest attempt has been       *)
(* followed by at most one such sleep.                                     *)
(***************************************************************************)
Thm_C23 ==
  \A n \in 1..Len(fetch_log) :
    /\ n < Len(fetch_log) => fetch_log[n].slept = <<interval>>
    /\ Len(fetch_log[n].slept) <= 1
    /\ \A k \in 1..Len(fetch_log[n].slept) : fetch_log[n].slept[k] = interval

\* a failed attempt, then one whose callback raised, then a third attempt
Wit_C23 ==
  /\ Len(fetch_log) >= 3
  /\ fetch_log[1].outcome \in {"fail", "raise"}
  /\ fetch_log[2].outcome = "cars"
  /\ fetch_log[2].callback = "raised"

(***************************************************************************)
(* C25.  Once a call of DataIngestionManager.stop_ingestion has returned,  *)
(* the manager starts no further fetch and its is_running flag is false.   *)
(***************************************************************************)
Cex_C25 ==
  [][(\E c \in 1..Len(stop_calls) : stop_calls[c] = "returned")
     => /\ Len(fetch_log') = Len(fetch_log)
        /\ ~dim'.is_running]_vars


(***************************************************************************)
(* C29.  For every event and time, schedule.is_race_live gives the same    *)
(* answer as the liveness test of check_for_live_race.                     *)
(***************************************************************************)
Cex_C29 ==
  (probe.decided # None /\ probe.served # None)
  => Val(probe.served) = Val(probe.decided)


(***************************************************************************)
(* C27.  current_race_name is set exactly when ingestion_manager is, a     *)
(* status taken at any time reports a race name exactly when it reports    *)
(* scraping, and a name that is set is the name of the event of the        *)
(* session's race row.                                                     *)
(***************************************************************************)
Thm_C27 ==
  /\ current_race_name # None <=> ingestion_manager # None
  /\ status.result # None
     => (Val(status.result).current_race # None
           <=> Val(status.result).is_scraping)
  /\ (current_race_name # None /\ ingestion_manager # None)
     => /\ SessionRow(races) # None
        /\ current_race_name = Some(SessionEvent(races).name)

\* a status taken after a start_ingestion that failed midway
Wit_C27 ==
  /\ status.calls > 0
  /\ Val(status.result).current_race = None
  /\ ~Val(status.result).is_scraping
  /\ StartedIngestion

====
